---- MODULE Spec2Model ----
(***************************************************************************)
(* langextract-docling: the hierarchical markdown chunker                  *)
(* (langextract_docling/markdown_chunker.py) and the extract wrapper       *)
(* (langextract_docling/__init__.py) that feeds its chunks to the wrapped  *)
(* langextract.extract.                                                    *)
(*                                                                         *)
(* A document is a forest of nodes numbered 1..n in pre-order; a node's    *)
(* number stands for its self_ref, so a smaller reference is an earlier    *)
(* pre-order position.  The text of a leaf i is the one-token sequence     *)
(* <<i>>; rendering rules (markdown syntax) are not modelled.              *)
(***************************************************************************)
EXTENDS Naturals, Sequences, FiniteSets

VARIABLES
    doc,              \* dl_doc: the document being chunked (read-only input)
    phase,            \* "first" / "second": which chunk(dl_doc) call is running
    pc,               \* position of the generator: idle, loop, done, raised
    idx,              \* position of the for loop in iterate_items
    heading_by_level, \* local dict of chunk()
    visited,          \* local set of chunk()
    ser_res,          \* local ser_res of chunk()
    excluded_refs,    \* local excluded_refs of chunk()
    chunks,           \* the chunks the consumer has received from this call
    ser_calls,        \* the items this call has passed to my_doc_ser.serialize
    first_out,        \* what the first call delivered, once a second call started
    inp,              \* extract: the caller's text_or_documents
    fetch_urls,       \* extract: the caller's fetch_urls
    epc,              \* extract: position in extract()
    tmp_file,         \* extract: the temporary file on disk: none, exists, unlinked
    tmp_file_path,    \* extract: the local tmp_file_path: unset, set
    text_or_documents,\* extract: the local text_or_documents
    orig_calls,       \* extract: the calls of _original_extract made so far
    result,           \* extract: how extract ended
    other             \* the locals and output of a chunk call on another document

chunkVars == <<doc, phase, pc, idx, heading_by_level, visited,
               ser_res, excluded_refs, chunks, ser_calls, first_out>>

extractVars == <<inp, fetch_urls, epc, tmp_file, tmp_file_path,
                 text_or_documents, orig_calls, result>>

vars == <<chunkVars, extractVars, other>>

\* ---------------------------------------------------------------- bounds
MaxNodes == 3
MaxExcluded == 1
MaxOddLeaves == 1
MaxConvertedNodes == 2
MaxRepeatNodes == 2
MaxPairNodes == 1

\* ------------------------------------------------------------- documents
Kinds == {"LeafItem", "ListGroup", "InlineGroup", "OtherGroup"}

GroupKinds == {"ListGroup", "InlineGroup", "OtherGroup"}

\* How the serializer renders a leaf: text with a span, empty text, text
\* without a span, or a failure (a dangling reference).  A "heading" leaf is
\* a heading-bearing item (a title or a section header): it renders as text
\* with a span.
Renders == {"text", "heading", "empty", "nospan", "raise"}

Nodes(d) == 1..d.n

RECURSIVE AncestorsOrSelf(_, _)
AncestorsOrSelf(d, i) ==
    IF i = 0 THEN {} ELSE {i} \cup AncestorsOrSelf(d, d.parent[i])

Subtree(d, i) == {j \in Nodes(d) : i \in AncestorsOrSelf(d, j)}

Level(d, i) == Cardinality(AncestorsOrSelf(d, i))

\* The (item, level) pairs of dl_doc.iterate_items(with_groups=True), in order.
IterateItems(d) == [i \in 1..d.n |-> [item |-> i, level |-> Level(d, i)]]

\* parent numbers a forest in pre-order: a node hangs under the body (0) or
\* under a group on the path from the body to the node before it.
ShapeOK(n, parent, kind) ==
    IF \E i \in 1..n : parent[i] >= i THEN FALSE
    ELSE \A i \in 1..n :
            /\ parent[i] # 0 => kind[parent[i]] \in GroupKinds
            /\ i > 1 => parent[i] \in {0} \cup
                           AncestorsOrSelf([n |-> n, parent |-> parent], i - 1)

RenderOK(n, kind, render) ==
    /\ \A i \in 1..n : kind[i] \in GroupKinds => render[i] = "text"
    /\ Cardinality({i \in 1..n : render[i] # "text"}) <= MaxOddLeaves

\* P holds of some document of at most m nodes.
SomeDoc(m, P(_)) ==
    \E n \in 0..m :
      \E kind \in [1..n -> Kinds] :
        \E parent \in [1..n -> 0..m] :
          /\ ShapeOK(n, parent, kind)
          /\ \E render \in [1..n -> Renders] :
               /\ RenderOK(n, kind, render)
               /\ \E excluded \in SUBSET (1..n) :
                    /\ Cardinality(excluded) <= MaxExcluded
                    /\ P([n |-> n, parent |-> parent, kind |-> kind,
                          render |-> render, excluded |-> excluded,
                          origin |-> "origin"])

\* ------------------------------------------------------------ serializer
\* The external MarkdownDocSerializer behind the contract
\* serialize(node, visited) -> (text, consumedLeafRefs), mutating visited.

RECURSIVE SortedSeq(_)
SortedSeq(S) ==
    IF S = {} THEN <<>>
    ELSE LET m == CHOOSE x \in S : \A y \in S : x <= y
         IN <<m>> \o SortedSeq(S \ {m})

\* get_excluded_refs(**kwargs): pure over the document and its configuration.
GetExcludedRefs(d) == d.excluded

\* The leaves that serialize(item, visited) renders: the item itself and the
\* leaves beneath it that are neither visited yet nor excluded.
ReachedLeaves(d, item, vis) ==
    {j \in Subtree(d, item) :
        /\ d.kind[j] = "LeafItem"
        /\ j = item \/ (j \notin vis /\ j \notin GetExcludedRefs(d))}

SerializeRaises(d, item, vis) ==
    \E j \in ReachedLeaves(d, item, vis) : d.render[j] = "raise"

\* A part enters a group's result only if its text is not empty; a leaf
\* serialized on its own reports its span even when its text is empty.
SerializeResult(d, item, vis) ==
    LET leaves == ReachedLeaves(d, item, vis)
        worded == {j \in leaves : d.render[j] \in {"text", "heading", "nospan"}}
        spanned == {j \in leaves : d.render[j] \in {"text", "heading"}}
    IN  IF d.kind[item] = "LeafItem" /\ d.render[item] = "empty"
        THEN [text |-> <<>>, spans |-> <<item>>]
        ELSE [text |-> SortedSeq(worded), spans |-> SortedSeq(spanned)]

\* serialize marks the item and everything it descends into.
SerializeVisited(d, item, vis) == vis \cup Subtree(d, item)

\* create_ser_result(): the empty result.
CreateSerResult == [text |-> <<>>, spans |-> <<>>]

\* --------------------------------------------------------------- chunker
\* HierarchicalMarkdownChunker.chunk, one action per loop iteration.

EmptyDict == [k \in {} |-> ""]

\* a visited set that outlives the call that built it
StaleVisited == visited

\* set()
FreshVisited == {}

\* a breadcrumb that starts with a heading in it
HeadingsLeftOver == [k \in {1} |-> <<0>>]

\* heading_by_level = {}
FreshHeadings == EmptyDict

\* the exclusion test left out
InExcludedRefsNever(item, excl) == FALSE

\* item.self_ref in excluded_refs
InExcludedRefs(item, excl) == item \in excl

\* every node kind taken for serializable
IsSerializableKindAny(k) == TRUE

\* isinstance(item, (ListGroup, InlineGroup, DocItem))
IsSerializableKind(k) == k \in {"ListGroup", "InlineGroup", "LeafItem"}

\* the visited test left out
ShouldSerializeIgnoringVisited(d, item, vis) ==
    d.kind[item] \in {"ListGroup", "InlineGroup", "LeafItem"}

\* the elif condition that guards the call of serialize
ShouldSerialize(d, item, vis) ==
    IsSerializableKind(d.kind[item]) /\ item \notin vis

\* the empty-text test left out
TextIsEmptyNever(res) == FALSE

\* not ser_res.text
TextIsEmpty(res) == res.text = <<>>

\* only the first span kept
SpanItemsFirstOnly(res) == IF res.spans = <<>> THEN <<>> ELSE <<res.spans[1]>>

\* [u.item for u in ser_res.spans]
SpanItems(res) == res.spans

\* [heading_by_level[k] for k in sorted(heading_by_level)] or None
Headings(hbl) ==
    LET keys == SortedSeq(DOMAIN hbl)
    IN  IF keys = <<>> THEN [present |-> FALSE, list |-> <<>>]
        ELSE [present |-> TRUE,
              list |-> [i \in 1..Len(keys) |-> hbl[keys[i]]]]

\* DocChunk(text=..., meta=DocMeta(doc_items=..., headings=..., origin=...))
DocChunk(res, hbl, d) ==
    [text |-> res.text,
     doc_items |-> SpanItems(res),
     headings |-> Headings(hbl),
     origin |-> d.origin]

CurrentItem == IterateItems(doc)[idx].item

\* a loop that does not advance
NextIndexStuck(i) == i

\* the for loop moves to the next (item, level) pair
NextIndex(i) == i + 1

InLoop == pc = "loop" /\ idx <= doc.n

\* The first pull runs the generator's prologue.
Begin ==
    /\ pc = "idle"
    /\ pc' = "loop"
    /\ idx' = 1
    /\ heading_by_level' = FreshHeadings
    /\ visited' = FreshVisited
    /\ ser_res' = CreateSerResult
    /\ excluded_refs' = GetExcludedRefs(doc)
    /\ UNCHANGED <<doc, phase, chunks, ser_calls, first_out>>
    /\ UNCHANGED extractVars
    /\ UNCHANGED other

SkipExcluded ==
    /\ InLoop
    /\ InExcludedRefs(CurrentItem, excluded_refs)
    /\ idx' = NextIndex(idx)
    /\ UNCHANGED <<doc, phase, pc, heading_by_level, visited, ser_res,
                   excluded_refs, chunks, ser_calls, first_out>>
    /\ UNCHANGED extractVars
    /\ UNCHANGED other

SkipIneligible ==
    /\ InLoop
    /\ ~InExcludedRefs(CurrentItem, excluded_refs)
    /\ ~ShouldSerialize(doc, CurrentItem, visited)
    /\ idx' = NextIndex(idx)
    /\ UNCHANGED <<doc, phase, pc, heading_by_level, visited, ser_res,
                   excluded_refs, chunks, ser_calls, first_out>>
    /\ UNCHANGED extractVars
    /\ UNCHANGED other

CallsSerialize ==
    /\ InLoop
    /\ ~InExcludedRefs(CurrentItem, excluded_refs)
    /\ ShouldSerialize(doc, CurrentItem, visited)
    /\ ser_calls' = Append(ser_calls, CurrentItem)

\* serialize raises: the exception leaves the generator, whose frame is dropped.
SerializeRaise ==
    /\ CallsSerialize
    /\ SerializeRaises(doc, CurrentItem, visited)
    /\ pc' = "raised"
    /\ UNCHANGED <<doc, phase, idx, heading_by_level, visited, ser_res,
                   excluded_refs, chunks, first_out>>
    /\ UNCHANGED extractVars
    /\ UNCHANGED other

Serialized ==
    /\ CallsSerialize
    /\ ~SerializeRaises(doc, CurrentItem, visited)
    /\ ser_res' = SerializeResult(doc, CurrentItem, visited)
    /\ visited' = SerializeVisited(doc, CurrentItem, visited)
    /\ idx' = NextIndex(idx)
    /\ UNCHANGED <<doc, phase, pc, heading_by_level, excluded_refs, first_out>>
    /\ UNCHANGED extractVars
    /\ UNCHANGED other

SerializeEmptyText ==
    /\ Serialized
    /\ TextIsEmpty(ser_res')
    /\ UNCHANGED chunks

SerializeNoItems ==
    /\ Serialized
    /\ ~TextIsEmpty(ser_res')
    /\ SpanItems(ser_res') = <<>>
    /\ UNCHANGED chunks

SerializeYield ==
    /\ Serialized
    /\ ~TextIsEmpty(ser_res')
    /\ SpanItems(ser_res') # <<>>
    /\ chunks' = Append(chunks, DocChunk(ser_res', heading_by_level, doc))

Exhausted ==
    /\ pc = "loop"
    /\ idx > doc.n
    /\ pc' = "done"
    /\ UNCHANGED <<doc, phase, idx, heading_by_level, visited, ser_res,
                   excluded_refs, chunks, ser_calls, first_out>>
    /\ UNCHANGED extractVars
    /\ UNCHANGED other

ChunkStep ==
    \/ Begin
    \/ SkipExcluded
    \/ SkipIneligible
    \/ SerializeRaise
    \/ SerializeEmptyText
    \/ SerializeNoItems
    \/ SerializeYield
    \/ Exhausted

Finished == pc \in {"done", "raised"}

\* The caller calls chunk(dl_doc) a second time on the same document.
CallAgain ==
    /\ phase = "first"
    /\ Finished
    /\ phase' = "second"
    /\ first_out' = [out |-> chunks, how |-> pc]
    /\ pc' = "idle"
    /\ chunks' = <<>>
    /\ ser_calls' = <<>>
    /\ UNCHANGED <<doc, idx, heading_by_level, visited, ser_res, excluded_refs>>
    /\ UNCHANGED extractVars
    /\ UNCHANGED other

NoFirstOut == [out |-> <<>>, how |-> "none"]

\* The extract wrapper is not part of this harness.
NoInput == [isStr |-> FALSE, path |-> "none", suffixPdf |-> FALSE,
            isUrl |-> FALSE, url |-> "none"]

NoResult == [how |-> "running", value |-> "none"]

\* The value of the local text_or_documents: the caller's input, or a text.
FromInput(i) == [kind |-> "input", input |-> i, text |-> <<>>]

AsText(t) == [kind |-> "text", input |-> NoInput, text |-> t]

\* no other chunk call exists
NoOther == "none"

\* chunk(dl_doc) is called on a document of at most m nodes.
InitChunk(m) ==
    /\ SomeDoc(m, LAMBDA d : doc = d)
    /\ phase = "first"
    /\ pc = "idle"
    /\ idx = 0
    /\ heading_by_level = EmptyDict
    /\ visited = {}
    /\ ser_res = CreateSerResult
    /\ excluded_refs = {}
    /\ chunks = <<>>
    /\ ser_calls = <<>>
    /\ first_out = NoFirstOut
    /\ inp = NoInput
    /\ fetch_urls = TRUE
    /\ epc = "unused"
    /\ tmp_file = "none"
    /\ tmp_file_path = "unset"
    /\ text_or_documents = FromInput(NoInput)
    /\ orig_calls = <<>>
    /\ result = NoResult
    /\ other = NoOther

\* One call of chunk(dl_doc), pulled by its consumer.
Init == InitChunk(MaxNodes)

Next == ChunkStep

Spec == Init /\ [][Next]_vars

\* Two calls of chunk(dl_doc) on the same document, one after the other.
InitRepeat == InitChunk(MaxRepeatNodes)

NextRepeat == ChunkStep \/ CallAgain

SpecRepeat == InitRepeat /\ [][NextRepeat]_vars

\* The consumer keeps pulling: a generator step that can be taken is taken.
SpecFair == SpecRepeat /\ WF_vars(ChunkStep)

\* ------------------------------------------------------ two chunk calls
\* A second chunk call, on another document, pulled in any interleaving with
\* the first.  Its frame is the record other; one step is one loop iteration.

\* the frame of a chunk call before its first pull
OpStart(d) ==
    [doc |-> d, pc |-> "idle", idx |-> 0, heading_by_level |-> EmptyDict,
     visited |-> {}, ser_res |-> CreateSerResult, excluded_refs |-> {},
     chunks |-> <<>>]

\* one step of the generator whose frame is o, reading the visited set vis
StepWith(o, vis) ==
    IF o.pc = "idle"
    THEN [o EXCEPT !.pc = "loop", !.idx = 1,
                   !.heading_by_level = FreshHeadings,
                   !.visited = FreshVisited,
                   !.ser_res = CreateSerResult,
                   !.excluded_refs = GetExcludedRefs(o.doc)]
    ELSE IF o.idx > o.doc.n
    THEN [o EXCEPT !.pc = "done"]
    ELSE LET d == o.doc
             item == IterateItems(d)[o.idx].item
             res == SerializeResult(d, item, vis)
             next == [o EXCEPT !.ser_res = res,
                               !.visited = SerializeVisited(d, item, vis),
                               !.idx = NextIndex(o.idx)]
         IN  IF \/ InExcludedRefs(item, o.excluded_refs)
                \/ ~ShouldSerialize(d, item, vis)
             THEN [o EXCEPT !.idx = NextIndex(o.idx)]
             ELSE IF SerializeRaises(d, item, vis)
             THEN [o EXCEPT !.pc = "raised"]
             ELSE IF TextIsEmpty(res) \/ SpanItems(res) = <<>>
             THEN next
             ELSE [next EXCEPT !.chunks =
                       Append(@, DocChunk(res, o.heading_by_level, d))]

\* one visited set for all chunk calls
VisitedOfFirstCall(o) == visited

\* visited is a local of the call: the set of the call's own frame
VisitedOf(o) == o.visited

OtherStep ==
    /\ other.pc \in {"idle", "loop"}
    /\ other' = StepWith(other, VisitedOf(other))
    /\ UNCHANGED <<chunkVars, extractVars>>

\* the other document has no exclusions and leaves that render as text
IsPlain(d) ==
    /\ GetExcludedRefs(d) = {}
    /\ \A j \in Nodes(d) : d.render[j] = "text"

InitPair ==
    /\ SomeDoc(MaxPairNodes, LAMBDA d : doc = d)
    /\ SomeDoc(MaxPairNodes, LAMBDA d : IsPlain(d) /\ other = OpStart(d))
    /\ phase = "first"
    /\ pc = "idle"
    /\ idx = 0
    /\ heading_by_level = EmptyDict
    /\ visited = {}
    /\ ser_res = CreateSerResult
    /\ excluded_refs = {}
    /\ chunks = <<>>
    /\ ser_calls = <<>>
    /\ first_out = NoFirstOut
    /\ inp = NoInput
    /\ fetch_urls = TRUE
    /\ epc = "unused"
    /\ tmp_file = "none"
    /\ tmp_file_path = "unset"
    /\ text_or_documents = FromInput(NoInput)
    /\ orig_calls = <<>>
    /\ result = NoResult

NextPair == ChunkStep \/ OtherStep

SpecPair == InitPair /\ [][NextPair]_vars

\* --------------------------------------------------------------- extract
\* langextract_docling.extract: what the caller passes as text_or_documents,
\* by the answers the code gets when it inspects it.
\*   path: Path(path).expanduser().is_file() is true ("file"), false
\*         ("nofile") or raises ("error")
\*   suffixPdf: path_obj.suffix.lower() == ".pdf"
\*   isUrl: langextract.io.is_url(text)
\*   url: the text ends in .pdf ("ends_pdf"), or the HEAD request answers with
\*        a PDF content type ("head_pdf"), another one ("head_other") or
\*        fails ("head_error")
StringInputs ==
    {i \in [isStr : {TRUE},
            path : {"file", "nofile", "error"},
            suffixPdf : BOOLEAN,
            isUrl : BOOLEAN,
            url : {"none", "ends_pdf", "head_pdf", "head_other", "head_error"}] :
        i.isUrl <=> i.url # "none"}

Inputs == {NoInput} \cup StringInputs

\* _is_pdf_path: any exception gives False
IsPdfPath(i) ==
    IF i.path = "error" THEN FALSE
    ELSE i.path = "file" /\ i.suffixPdf

\* _is_text_url
IsTextUrl(i) == i.isUrl

\* _is_pdf_url: any exception of the HEAD request gives False
IsPdfUrl(i) ==
    IF ~IsTextUrl(i) THEN FALSE
    ELSE IF i.url = "ends_pdf" THEN TRUE
    ELSE IF i.url = "head_error" THEN FALSE
    ELSE i.url = "head_pdf"

\* the branch extract takes
TakesPathBranch(i) == i.isStr /\ IsPdfPath(i)

\* the URL branch taken whatever fetch_urls says
TakesUrlBranchAnyFetch(i, fetch) == i.isStr /\ ~IsPdfPath(i) /\ IsPdfUrl(i)

TakesUrlBranch(i, fetch) == i.isStr /\ ~IsPdfPath(i) /\ fetch /\ IsPdfUrl(i)

\* The token that stands for the two newlines between chunk texts.
TwoNewlines == 0

\* the chunk texts run together with nothing between them
RECURSIVE JoinTextsNoSeparator(_)
JoinTextsNoSeparator(cs) ==
    IF cs = <<>> THEN <<>>
    ELSE cs[1].text \o JoinTextsNoSeparator(Tail(cs))

\* "\n\n".join([chunk.text for chunk in chunks])
RECURSIVE JoinTexts(_)
JoinTexts(cs) ==
    IF cs = <<>> THEN <<>>
    ELSE IF Len(cs) = 1 THEN cs[1].text
    ELSE cs[1].text \o <<TwoNewlines>> \o JoinTexts(Tail(cs))

Raised(what) == [how |-> "raised", value |-> what]

Returned(what) == [how |-> "returned", value |-> what]

\* What _original_extract may answer.
OriginalOutcomes ==
    {Returned("annotated_a"), Returned("annotated_b"), Raised("original_error")}

\* os.unlink(tmp_file_path) in the finally clause of the URL branch
AfterFinally(file) == IF TakesUrlBranch(inp, fetch_urls) THEN "unlinked" ELSE file

unstartedChunk == <<doc, phase, pc, idx, heading_by_level, visited, ser_res,
                    excluded_refs, chunks, ser_calls, first_out>>

\* lines 172-173: the input is a path to an existing PDF file
ChoosePathBranch ==
    /\ epc = "start"
    /\ TakesPathBranch(inp)
    /\ epc' = "convert"
    /\ UNCHANGED <<inp, fetch_urls, tmp_file, tmp_file_path,
                   text_or_documents, orig_calls, result>>
    /\ UNCHANGED unstartedChunk
    /\ UNCHANGED other

\* line 189: the input is a URL of a PDF and fetch_urls is set
ChooseUrlBranch ==
    /\ epc = "start"
    /\ TakesUrlBranch(inp, fetch_urls)
    /\ epc' = "make_tmp"
    /\ UNCHANGED <<inp, fetch_urls, tmp_file, tmp_file_path,
                   text_or_documents, orig_calls, result>>
    /\ UNCHANGED unstartedChunk
    /\ UNCHANGED other

\* neither branch: the input goes to the original extract as it is
ChooseNoBranch ==
    /\ epc = "start"
    /\ ~TakesPathBranch(inp)
    /\ ~TakesUrlBranch(inp, fetch_urls)
    /\ epc' = "call_original"
    /\ UNCHANGED <<inp, fetch_urls, tmp_file, tmp_file_path,
                   text_or_documents, orig_calls, result>>
    /\ UNCHANGED unstartedChunk
    /\ UNCHANGED other

\* line 196: tempfile.NamedTemporaryFile(suffix=".pdf", delete=False)
MakeTempFile ==
    /\ epc = "make_tmp"
    /\ tmp_file' = "exists"
    /\ epc' = "download"
    /\ UNCHANGED <<inp, fetch_urls, tmp_file_path, text_or_documents,
                   orig_calls, result>>
    /\ UNCHANGED unstartedChunk
    /\ UNCHANGED other

\* line 197: requests.get answers
DownloadOk ==
    /\ epc = "download"
    /\ epc' = "status"
    /\ UNCHANGED <<inp, fetch_urls, tmp_file, tmp_file_path,
                   text_or_documents, orig_calls, result>>
    /\ UNCHANGED unstartedChunk
    /\ UNCHANGED other

\* line 197: requests.get raises; the with block closes the file and the
\* exception leaves extract
DownloadRaises ==
    /\ epc = "download"
    /\ epc' = "finished"
    /\ result' = Raised("download_error")
    /\ UNCHANGED <<inp, fetch_urls, tmp_file, tmp_file_path,
                   text_or_documents, orig_calls>>
    /\ UNCHANGED unstartedChunk
    /\ UNCHANGED other

\* line 198: response.raise_for_status() passes
StatusOk ==
    /\ epc = "status"
    /\ epc' = "write"
    /\ UNCHANGED <<inp, fetch_urls, tmp_file, tmp_file_path,
                   text_or_documents, orig_calls, result>>
    /\ UNCHANGED unstartedChunk
    /\ UNCHANGED other

\* line 198: response.raise_for_status() raises
StatusRaises ==
    /\ epc = "status"
    /\ epc' = "finished"
    /\ result' = Raised("http_error")
    /\ UNCHANGED <<inp, fetch_urls, tmp_file, tmp_file_path,
                   text_or_documents, orig_calls>>
    /\ UNCHANGED unstartedChunk
    /\ UNCHANGED other

\* lines 199-200: the content is written and tmp_file_path is set
WriteTempFile ==
    /\ epc = "write"
    /\ tmp_file_path' = "set"
    /\ epc' = "convert"
    /\ UNCHANGED <<inp, fetch_urls, tmp_file, text_or_documents,
                   orig_calls, result>>
    /\ UNCHANGED unstartedChunk
    /\ UNCHANGED other

\* lines 181-182 and 204-205: the converter gives a document, and the list
\* comprehension creates the chunk generator over it
ConvertOk ==
    /\ epc = "convert"
    /\ SomeDoc(MaxConvertedNodes, LAMBDA d : doc' = d)
    /\ pc' = "idle"
    /\ epc' = "chunking"
    /\ UNCHANGED <<phase, idx, heading_by_level, visited, ser_res,
                   excluded_refs, chunks, ser_calls, first_out>>
    /\ UNCHANGED <<inp, fetch_urls, tmp_file, tmp_file_path,
                   text_or_documents, orig_calls, result>>
    /\ UNCHANGED other

\* the converter raises; in the URL branch the finally clause runs
ConvertRaises ==
    /\ epc = "convert"
    /\ epc' = "finished"
    /\ result' = Raised("conversion_error")
    /\ tmp_file' = AfterFinally(tmp_file)
    /\ UNCHANGED <<inp, fetch_urls, tmp_file_path, text_or_documents,
                   orig_calls>>
    /\ UNCHANGED unstartedChunk
    /\ UNCHANGED other

\* lines 188 and 211: the generator is exhausted and the texts are joined;
\* in the URL branch the finally clause runs
JoinChunks ==
    /\ epc = "chunking"
    /\ pc = "done"
    /\ text_or_documents' = AsText(JoinTexts(chunks))
    /\ tmp_file' = AfterFinally(tmp_file)
    /\ epc' = "call_original"
    /\ UNCHANGED <<inp, fetch_urls, tmp_file_path, orig_calls, result>>
    /\ UNCHANGED chunkVars
    /\ UNCHANGED other

\* the serializer's exception leaves chunk() and extract; in the URL branch
\* the finally clause runs
ChunkingRaises ==
    /\ epc = "chunking"
    /\ pc = "raised"
    /\ epc' = "finished"
    /\ result' = Raised("serializer_error")
    /\ tmp_file' = AfterFinally(tmp_file)
    /\ UNCHANGED <<inp, fetch_urls, tmp_file_path, text_or_documents,
                   orig_calls>>
    /\ UNCHANGED chunkVars
    /\ UNCHANGED other

\* lines 216-241: return _original_extract(text_or_documents=..., ...)
OriginalCall(tod, fetch, outcome) ==
    [text_or_documents |-> tod, fetch_urls |-> fetch,
     others |-> "as_given", outcome |-> outcome]

CallOriginal ==
    /\ epc = "call_original"
    /\ \E o \in OriginalOutcomes :
          /\ orig_calls' = Append(orig_calls,
                                  OriginalCall(text_or_documents, fetch_urls, o))
          /\ result' = o
    /\ epc' = "finished"
    /\ UNCHANGED <<inp, fetch_urls, tmp_file, tmp_file_path, text_or_documents>>
    /\ UNCHANGED chunkVars
    /\ UNCHANGED other

ExtractStep ==
    \/ ChoosePathBranch
    \/ ChooseUrlBranch
    \/ ChooseNoBranch
    \/ MakeTempFile
    \/ DownloadOk
    \/ DownloadRaises
    \/ StatusOk
    \/ StatusRaises
    \/ WriteTempFile
    \/ ConvertOk
    \/ ConvertRaises
    \/ JoinChunks
    \/ ChunkingRaises
    \/ CallOriginal

\* No document exists before the converter has run.
NoDocument ==
    [n |-> 0, parent |-> <<>>, kind |-> <<>>, render |-> <<>>,
     excluded |-> {}, origin |-> "origin"]

InitExtract ==
    /\ inp \in Inputs
    /\ fetch_urls \in BOOLEAN
    /\ epc = "start"
    /\ tmp_file = "none"
    /\ tmp_file_path = "unset"
    /\ text_or_documents = FromInput(inp)
    /\ orig_calls = <<>>
    /\ result = NoResult
    /\ doc = NoDocument
    /\ phase = "first"
    /\ pc = "unstarted"
    /\ idx = 0
    /\ heading_by_level = EmptyDict
    /\ visited = {}
    /\ ser_res = CreateSerResult
    /\ excluded_refs = {}
    /\ chunks = <<>>
    /\ ser_calls = <<>>
    /\ first_out = NoFirstOut
    /\ other = NoOther

NextExtract == ExtractStep \/ ChunkStep

SpecExtract == InitExtract /\ [][NextExtract]_vars

\* ---------------------------------------------------------------- claims

Range(seq) == {seq[i] : i \in 1..Len(seq)}

IsPrefix(a, b) == Len(a) <= Len(b) /\ \A i \in 1..Len(a) : a[i] = b[i]

\* the (text, spannedItems) pairs of a chunk sequence
Pairs(cs) == [i \in 1..Len(cs) |-> <<cs[i].text, cs[i].doc_items>>]

IsGroup(i) == doc.kind[i] \in GroupKinds

\* C1: at every point of a chunk(D) call, no leaf reference appears in the
\* spannedItems of two different chunks emitted so far.
C1_SpansDisjoint ==
    \A a, b \in 1..Len(chunks) :
        a # b => Range(chunks[a].doc_items) \cap Range(chunks[b].doc_items) = {}

\* A finished call that emitted a group's chunk and a later chunk.
C1_Witness ==
    /\ pc = "done"
    /\ Len(chunks) >= 2
    /\ \E g \in Range(ser_calls) : IsGroup(g) /\ \E k \in 1..Len(chunks) :
          Range(chunks[k].doc_items) \subseteq Subtree(doc, g) \ {g}

C2_ChunksNonEmpty ==
    \A k \in 1..Len(chunks) :
        chunks[k].text # <<>> /\ chunks[k].doc_items # <<>>

C2_DroppedBySkipping ==
    (/\ InLoop
     /\ ser_calls' = Append(ser_calls, CurrentItem)
     /\ ~SerializeRaises(doc, CurrentItem, visited)
     /\ LET r == SerializeResult(doc, CurrentItem, visited)
        IN  r.text = <<>> \/ r.spans = <<>>)
    => (chunks' = chunks /\ pc' = "loop" /\ idx' = idx + 1)

\* C2: every emitted chunk has non-empty text and non-empty spannedItems,
\* and an iteration whose serializer result has empty text or no spans emits
\* nothing, raises nothing and moves the traversal to the next node.
C2_NoEmptyChunk == [](C2_ChunksNonEmpty) /\ [][C2_DroppedBySkipping]_vars

\* A result without text, or one without spans, has been dropped and a chunk
\* was emitted for a later node.
C2_Witness ==
    /\ Len(ser_calls) >= 2
    /\ Len(chunks) >= 1
    /\ \E j \in Range(ser_calls) :
          /\ doc.render[j] \in {"empty", "nospan"}
          /\ j < chunks[Len(chunks)].doc_items[1]

C3_ExcludedInNoChunk ==
    \A k \in 1..Len(chunks) :
        Range(chunks[k].doc_items) \cap GetExcludedRefs(doc) = {}

C3_ExcludedYieldsNothing ==
    (InLoop /\ CurrentItem \in GetExcludedRefs(doc)) => chunks' = chunks

C4_SecondCallSame ==
    /\ (pc = "loop" /\ idx = 1) =>
          (visited = {} /\ heading_by_level = EmptyDict)
    /\ phase = "second" =>
          /\ IsPrefix(Pairs(chunks), Pairs(first_out.out))
          /\ Finished => (Pairs(chunks) = Pairs(first_out.out)
                          /\ pc = first_out.how)

\* The second call has finished and delivered at least two chunks.
C4_Witness ==
    /\ phase = "second"
    /\ pc = "done"
    /\ Len(chunks) >= 2
    /\ Pairs(chunks) = Pairs(first_out.out)

\* C5: of any two chunks of one call, the one emitted earlier has a first
\* spanned leaf that comes strictly earlier in the document's pre-order.
C5_EmissionInPreOrder ==
    \A a, b \in 1..Len(chunks) :
        a < b => chunks[a].doc_items[1] < chunks[b].doc_items[1]

\* Three chunks have been emitted.
C5_Witness ==
    /\ Len(chunks) >= 3
    /\ pc = "done"

\* The nodes the running call has considered so far.
Considered ==
    CASE pc = "idle" -> 0
      [] pc = "raised" -> idx
      [] OTHER -> idx - 1

C6_Bounded ==
    /\ Len(chunks) <= Considered
    /\ Considered <= doc.n
    /\ doc.n = 0 => chunks = <<>>

C6_OnePerNode ==
    /\ idx' # idx => (idx' = idx + 1 \/ (pc = "idle" /\ idx' = 1))
    /\ Len(chunks') > Len(chunks) =>
          (Len(chunks') = Len(chunks) + 1 /\ idx' = idx + 1)
    /\ (pc = "loop" /\ doc.n = 0) => pc' = "done"

\* C6: while the consumer keeps pulling, a chunk operation ends; every node
\* is considered once, each gives at most one chunk, so there are at most as
\* many chunks as nodes, and an empty document gives none and ends at once.
C6_Terminates ==
    /\ [](C6_Bounded)
    /\ [][C6_OnePerNode]_vars
    /\ (pc = "idle" ~> Finished)

\* A call over a full-size document ran to exhaustion with a chunk emitted.
C6_Witness ==
    /\ pc = "done"
    /\ doc.n = MaxRepeatNodes
    /\ Considered = doc.n
    /\ Len(chunks) >= 1

\* The leaves of the group g that are not excluded.
GroupLeaves(g) ==
    {j \in Subtree(doc, g) :
        doc.kind[j] = "LeafItem" /\ j \notin GetExcludedRefs(doc)}

\* The traversal stands at a list or inline group that is not excluded and
\* none of whose non-excluded leaves has been visited.
AtFreshGroup ==
    /\ InLoop
    /\ doc.kind[CurrentItem] \in {"ListGroup", "InlineGroup"}
    /\ CurrentItem \notin excluded_refs
    /\ GroupLeaves(CurrentItem) # {}
    /\ GroupLeaves(CurrentItem) \cap visited = {}

EmitsOneChunk == Len(chunks') = Len(chunks) + 1 /\ IsPrefix(chunks, chunks')

\* A chunk is emitted by the iteration of a node that lies inside a list or
\* inline group serialized earlier in the call.
ChunkFromConsumedNode ==
    /\ InLoop
    /\ EmitsOneChunk
    /\ \E g \in Range(ser_calls) :
          /\ doc.kind[g] \in {"ListGroup", "InlineGroup"}
          /\ CurrentItem \in Subtree(doc, g)

C7_OriginalStep ==
    /\ AtFreshGroup =>
          /\ EmitsOneChunk
          /\ GroupLeaves(CurrentItem) \subseteq
                Range(chunks'[Len(chunks')].doc_items)
    /\ ~ChunkFromConsumedNode

RenderedLeaves(g) ==
    {j \in GroupLeaves(g) : doc.render[j] \in {"text", "heading"}}

C7_AmendedStep ==
    /\ (AtFreshGroup /\ pc' # "raised") =>
          /\ ser_calls' = Append(ser_calls, CurrentItem)
          /\ IF ser_res'.text # <<>> /\ ser_res'.spans # <<>>
             THEN /\ EmitsOneChunk
                  /\ chunks'[Len(chunks')].doc_items = ser_res'.spans
                  /\ Range(ser_res'.spans) = RenderedLeaves(CurrentItem)
             ELSE chunks' = chunks
          /\ GroupLeaves(CurrentItem) \subseteq visited'
    /\ ~ChunkFromConsumedNode

C10_Eligible ==
    /\ CurrentItem \notin excluded_refs
    /\ CurrentItem \notin GetExcludedRefs(doc)
    /\ doc.kind[CurrentItem] \in {"LeafItem", "ListGroup", "InlineGroup"}
    /\ CurrentItem \notin visited

C10_Step ==
    /\ (phase' = phase /\ ser_calls' # ser_calls) =>
          (InLoop /\ ser_calls' = Append(ser_calls, CurrentItem) /\ C10_Eligible)
    /\ (InLoop /\ C10_Eligible) => ser_calls' = Append(ser_calls, CurrentItem)

\* C10: serialize is called on a node exactly when, as the traversal reaches
\* it, it is not excluded, is a leaf, list group or inline group, and is not
\* visited, whatever its nesting level; an OtherGroup is never serialized.
C10_SerializeOnlyEligible ==
    /\ [][C10_Step]_vars
    /\ [](\A i \in Range(ser_calls) : doc.kind[i] # "OtherGroup")

\* A nested OtherGroup was passed over and the leaf beneath it, two levels
\* further down than the top, was serialized.
C10_Witness ==
    /\ pc = "done"
    /\ \E o, j \in Nodes(doc) :
          /\ doc.kind[o] = "OtherGroup"
          /\ Level(doc, o) = 2
          /\ doc.parent[j] = o
          /\ Level(doc, j) = 3
          /\ Range(ser_calls) = {j}

\* The input is an existing local .pdf file.
InputIsPdfFile == inp.isStr /\ inp.path = "file" /\ inp.suffixPdf

\* The input is a URL that ends in .pdf or that answers as a PDF.
InputIsPdfUrl == inp.isStr /\ inp.isUrl /\ inp.url \in {"ends_pdf", "head_pdf"}

InputIsPdf == InputIsPdfFile \/ (fetch_urls /\ InputIsPdfUrl)

\* C8: for an input that is no string, or a string that is neither an
\* existing .pdf file nor (with fetch_urls) a PDF URL, extract converts and
\* chunks nothing, calls the original extract once with the caller's input
\* and the other arguments as given, and ends as the original extract ended.
C8_PassThrough ==
    (epc # "unused" /\ ~InputIsPdf) =>
        /\ doc = NoDocument /\ pc = "unstarted" /\ tmp_file = "none"
        /\ Len(orig_calls) <= 1
        /\ orig_calls = <<>> => result = NoResult
        /\ epc = "finished" =>
              /\ Len(orig_calls) = 1
              /\ orig_calls[1].text_or_documents = FromInput(inp)
              /\ orig_calls[1].fetch_urls = fetch_urls
              /\ orig_calls[1].others = "as_given"
              /\ result = orig_calls[1].outcome

\* A URL that answers as a PDF, with fetch_urls off, went to the original
\* extract as it was and its result came back.
C8_Witness ==
    /\ epc = "finished"
    /\ inp.isStr /\ inp.url = "head_pdf" /\ ~fetch_urls
    /\ inp.path # "file"
    /\ Len(orig_calls) = 1
    /\ result = Returned("annotated_b")

\* The texts of the first k chunks with two newlines (0) between neighbours.
RECURSIVE C9_Joined(_, _)
C9_Joined(cs, k) ==
    IF k = 0 THEN <<>>
    ELSE IF k = 1 THEN cs[1].text
    ELSE C9_Joined(cs, k - 1) \o <<0>> \o cs[k].text

C9_StoppedBeforeCall ==
    result.value \in {"download_error", "http_error", "conversion_error",
                      "serializer_error"}

IsHeadingItem(d, j) == d.kind[j] = "LeafItem" /\ d.render[j] = "heading"

\* C11: heading_by_level is empty in every state of a chunk call, and every
\* emitted chunk has its headings absent, whatever heading-bearing items the
\* document holds and wherever they lie relative to the chunk.
C11_HeadingsAbsent ==
    /\ heading_by_level = EmptyDict
    /\ \A k \in 1..Len(chunks) :
          chunks[k].headings = [present |-> FALSE, list |-> <<>>]

\* The call finished on a document with a heading-bearing item that is
\* spanned by one chunk and lies before the first item of a later chunk.
C11_Witness ==
    /\ pc = "done"
    /\ \E h \in Nodes(doc) :
          /\ IsHeadingItem(doc, h)
          /\ \E k \in 1..Len(chunks) : h \in Range(chunks[k].doc_items)
          /\ \E k \in 1..Len(chunks) : h < chunks[k].doc_items[1]

\* ------------------------------------------------------------------ C13
\* C13: for a PDF-URL input, once extract has created its temporary file,
\* the file has been deleted by the time extract returns or raises, on every
\* path: download exception, HTTP error status, conversion failure, chunking
\* failure, and success.
C13_TempFileDeleted ==
    (epc = "finished" /\ tmp_file # "none") => tmp_file = "unlinked"

\* ------------------------------------------------------------------ C14
\* where a leaf stands in the doc_items of the emitted chunks
SpannedAt(j) ==
    {kp \in UNION {{<<k, p>> : p \in 1..Len(chunks[k].doc_items)} :
                      k \in 1..Len(chunks)} :
        chunks[kp[1]].doc_items[kp[2]] = j}

LiveLeaves == {j \in Nodes(doc) : /\ doc.kind[j] = "LeafItem"
                                  /\ j \notin GetExcludedRefs(doc)}

RECURSIVE RunFrom(_)
RunFrom(o) ==
    IF o.pc \in {"done", "raised"} THEN o
    ELSE RunFrom(StepWith(o, o.visited))

RunAlone(d) == RunFrom(OpStart(d))

\* what a call has emitted is what it emits alone, up to where it stands
AsAlone(d, at, cs) ==
    LET alone == RunAlone(d)
    IN  /\ IsPrefix(cs, alone.chunks)
        /\ at \in {"done", "raised"} => (cs = alone.chunks /\ at = alone.pc)

C12_EachAsAlone ==
    /\ AsAlone(doc, pc, chunks)
    /\ AsAlone(other.doc, other.pc, other.chunks)

\* a step of one call leaves the frame of the other call as it is
C12_StepsApart == ~(other' # other /\ chunkVars' # chunkVars)

====
